---------------------------- MODULE Spec2Model ----------------------------
(***************************************************************************)
(* Model of src/server.js: an express chat API that keeps conversations    *)
(* and messages in one in-memory object `db`, mirrored to database.json.  *)
(*                                                                         *)
(* Node runs every handler to completion on one thread; the only place a  *)
(* handler suspends is the `await` of the completion provider in          *)
(* POST /message (line 112).  POST /message is therefore two steps:       *)
(*   PostStart   lines 70-112  (validate, resolve conversation, append    *)
(*                              user message, build history, call out)    *)
(* followed, if and when the provider answers, by one of                  *)
(*   PostResume  lines 117-137 (append assistant message, save, answer)   *)
(*   PostCatch   lines 139-145 (answer 500)                               *)
(* All other handlers are synchronous and are one action each.            *)
(***************************************************************************)
EXTENDS Integers, Sequences, FiniteSets, TLC

(* ------------------------------ bounds -------------------------------- *)
MaxReq == 2        \* number of POST /message requests in a behaviour
MaxClock == 1      \* largest value of the wall clock
MaxWriteFailures == 1   \* number of fs.writeFileSync calls that may throw

Req == 1..MaxReq
IdInputs == 0..MaxReq                \* 0: conversationId absent / matches nothing
MessageInputs == {"", "hi"}          \* "": message missing or empty
UserInputs == {"", "u1"}             \* "": userId absent
Replies == {"pong"}                  \* content returned by the provider
WriteOutcomes == {"ok", "throws"}

VARIABLES
  db,        \* line 27: { conversations: [], messages: [] }
  file,      \* content of database.json
  reqs,      \* per POST /message request: position and locals of its handler
  now,       \* wall clock read by new Date()
  last,      \* the response sent by the latest step, if it sent one
  convIdLog, \* history: conversation ids in the order generateId issued them
  msgIdLog,  \* history: message ids in the order generateId issued them
  ioFailed   \* history: number of fs.writeFileSync calls that have thrown

vars == <<db, file, reqs, now, last, convIdLog, msgIdLog, ioFailed>>

(* ------------------------------ helpers ------------------------------- *)
EmptyDB == [conversations |-> <<>>, messages |-> <<>>]

Range(s) == {s[i] : i \in 1..Len(s)}

SetMax(S) == CHOOSE x \in S : \A y \in S : y <= x

Min(a, b) == IF a <= b THEN a ELSE b

\* a faulty id generator: next id taken from the array's length
generateIdByLength(array) == Len(array) + 1

\* line 63-65
generateId(array) ==
  IF Len(array) > 0 THEN SetMax({array[i].id : i \in 1..Len(array)}) + 1 ELSE 1

\* Array.prototype.find, line 80 (0 when nothing matches)
FindIndex(convs, id) ==
  IF \E i \in 1..Len(convs) : convs[i].id = id
  THEN CHOOSE i \in 1..Len(convs) :
         /\ convs[i].id = id
         /\ \A j \in 1..(i-1) : convs[j].id # id
  ELSE 0

RECURSIVE InsertByTimestampStrict(_, _)
\* a faulty sort step: an element is put before the elements of equal timestamp
InsertByTimestampStrict(sorted, m) ==
  IF sorted = <<>> THEN <<m>>
  ELSE IF sorted[Len(sorted)].timestamp < m.timestamp
       THEN Append(sorted, m)
       ELSE Append(InsertByTimestampStrict(SubSeq(sorted, 1, Len(sorted) - 1), m),
                   sorted[Len(sorted)])

RECURSIVE InsertByTimestamp(_, _)
\* insert m after every element whose timestamp is <= m's (stable)
InsertByTimestamp(sorted, m) ==
  IF sorted = <<>> THEN <<m>>
  ELSE IF sorted[Len(sorted)].timestamp <= m.timestamp
       THEN Append(sorted, m)
       ELSE Append(InsertByTimestamp(SubSeq(sorted, 1, Len(sorted) - 1), m),
                   sorted[Len(sorted)])

RECURSIVE SortNewestFirst(_)
\* a faulty sort: the comparator of line 197, (a, b) => b - a, used for messages
SortNewestFirst(s) ==
  IF s = <<>> THEN <<>>
  ELSE LET rest == SortNewestFirst(SubSeq(s, 1, Len(s) - 1))
           m == s[Len(s)]
           older == SelectSeq(rest, LAMBDA x : x.timestamp <= m.timestamp)
           newer == SelectSeq(rest, LAMBDA x : x.timestamp > m.timestamp)
       IN newer \o <<m>> \o older

RECURSIVE SortByTimestamp(_)
\* Array.prototype.sort((a, b) => new Date(a.timestamp) - new Date(b.timestamp))
SortByTimestamp(s) ==
  IF s = <<>> THEN <<>>
  ELSE InsertByTimestamp(SortByTimestamp(SubSeq(s, 1, Len(s) - 1)), s[Len(s)])

MessagesOf(d, cid) == SelectSeq(d.messages, LAMBDA m : m.conversation_id = cid)

\* lines 153-155
HistoryMessages(d, cid) == SortByTimestamp(MessagesOf(d, cid))

\* lines 157-167: status of GET /history/:conversationId
HistoryStatus(d, cid) == IF Len(HistoryMessages(d, cid)) = 0 THEN 404 ELSE 200

\* lines 103-109
ProviderHistory(d, cid) ==
  [i \in 1..Len(HistoryMessages(d, cid)) |->
     [role |-> HistoryMessages(d, cid)[i].role,
      content |-> HistoryMessages(d, cid)[i].content]]

\* lines 182-196 without the final sort: ids listed for an owner
ListedIds(d, userId) ==
  {c.id : c \in {x \in Range(d.conversations) :
                   x.user_id = (IF userId = "" THEN "anonymous" ELSE userId)}}

\* lines 183-195: the entry GET /conversations returns for a conversation
ConversationSummary(d, conv) ==
  LET convMessages == MessagesOf(d, conv.id) IN
  [id |-> conv.id,
   created_at |-> conv.created_at,
   message_count |-> Len(convMessages),
   last_message |-> IF Len(convMessages) > 0
                    THEN convMessages[Len(convMessages)].timestamp
                    ELSE conv.created_at]

RECURSIVE InsertByLastMessageUnstable(_, _)
\* a faulty sort step: an entry is put before the entries of equal last_message
InsertByLastMessageUnstable(sorted, x) ==
  IF sorted = <<>> THEN <<x>>
  ELSE IF sorted[Len(sorted)].last_message > x.last_message
       THEN Append(sorted, x)
       ELSE Append(InsertByLastMessageUnstable(
                     SubSeq(sorted, 1, Len(sorted) - 1), x),
                   sorted[Len(sorted)])

RECURSIVE InsertByLastMessage(_, _)
\* insert x after every entry whose last_message is >= x's (stable)
InsertByLastMessage(sorted, x) ==
  IF sorted = <<>> THEN <<x>>
  ELSE IF sorted[Len(sorted)].last_message >= x.last_message
       THEN Append(sorted, x)
       ELSE Append(InsertByLastMessage(SubSeq(sorted, 1, Len(sorted) - 1), x),
                   sorted[Len(sorted)])

RECURSIVE SortByLastMessage(_)
\* line 197: Array.prototype.sort((a, b) => new Date(b.last_message) -
\* new Date(a.last_message)); the sort is stable (ECMAScript 2019)
SortByLastMessage(s) ==
  IF s = <<>> THEN <<>>
  ELSE InsertByLastMessage(SortByLastMessage(SubSeq(s, 1, Len(s) - 1)),
                           s[Len(s)])

\* lines 179-197: the conversations GET /conversations?userId= returns
UserConversations(d, userId) ==
  LET owner == IF userId = "" THEN "anonymous" ELSE userId
      owned == SelectSeq(d.conversations, LAMBDA c : c.user_id = owner)
  IN SortByLastMessage([i \in 1..Len(owned) |->
                          ConversationSummary(d, owned[i])])

\* lines 51-57: fs.writeFileSync either replaces the file or throws and
\* leaves it as it was; the exception is caught and logged, nothing is rethrown
saveDB(d, f, w) == IF w = "ok" THEN d ELSE f

\* database.json does not exist
NoFile == [exists |-> FALSE]

\* database.json exists and its text is not JSON (cut short, overwritten)
CorruptFile == [exists |-> TRUE, readable |-> TRUE]

\* database.json exists and fs.readFileSync throws (no permission, a directory)
UnreadableFile == [exists |-> TRUE, readable |-> FALSE]

\* line 37, JSON.parse of what line 53 wrote: every stored field comes back,
\* as objects of the new process (none of them allocated by a request of it)
JSONParse(f) ==
  [conversations |-> f.conversations,
   messages |-> [i \in 1..Len(f.messages) |-> [f.messages[i] EXCEPT !.req = 0]]]

\* lines 33-48 when the catch block is missing: a file that cannot be read or
\* parsed leaves the store without its arrays
loadDBNoFallback(f, w) ==
  IF f = NoFile
  THEN [db |-> EmptyDB, file |-> saveDB(EmptyDB, f, w)]
  ELSE IF f \in {CorruptFile, UnreadableFile}
       THEN [db |-> f, file |-> f]
       ELSE [db |-> JSONParse(f), file |-> f]

\* lines 33-48, started on file content f, with w the outcome of the write
\* it may make: the store and the file it leaves
loadDB(f, w) ==
  IF f = NoFile
  THEN [db |-> EmptyDB, file |-> saveDB(EmptyDB, f, w)]
  ELSE IF f \in {CorruptFile, UnreadableFile}
       THEN [db |-> EmptyDB, file |-> saveDB(EmptyDB, f, w)]
       ELSE [db |-> JSONParse(f), file |-> f]

\* the outcomes fs.writeFileSync may have at this point of the behaviour
WritesNow == IF ioFailed < MaxWriteFailures THEN WriteOutcomes ELSE {"ok"}

NewReq == [pc |-> "new", convId |-> 0, history |-> <<>>]

\* a handler that has answered: its locals are gone
Done == [NewReq EXCEPT !.pc = "done"]

\* a response: the handler that sent it, the POST request it answers (0 for
\* DELETE), its HTTP status, and the conversation the request resolved to
\* (0 when it resolved to none)
Event(op, r, status, id) == [op |-> op, req |-> r, status |-> status, id |-> id]

\* no response was sent by the latest step
NoEvent == Event("none", 0, 0, 0)

(* ------------------------------- Init --------------------------------- *)
\* lines 27-30 and loadDB (33-48) on a machine without database.json
Init ==
  /\ db = EmptyDB
  /\ file = EmptyDB
  /\ reqs = [r \in Req |-> NewReq]
  /\ now = 0
  /\ last = NoEvent
  /\ convIdLog = <<>>
  /\ msgIdLog = <<>>
  /\ ioFailed = 0

\* a snapshot an earlier run of the server left behind
SavedFile ==
  [conversations |-> <<[id |-> 1, user_id |-> "anonymous", created_at |-> 0]>>,
   messages |-> <<[id |-> 1, conversation_id |-> 1, role |-> "user",
                   content |-> "hi", timestamp |-> 0, req |-> 0]>>]

\* a snapshot that holds a conversation without messages
EmptyConversationFile ==
  [conversations |-> <<[id |-> 1, user_id |-> "anonymous", created_at |-> 0]>>,
   messages |-> <<>>]

\* what database.json may be when the server starts
StartupFiles ==
  {NoFile, CorruptFile, UnreadableFile, EmptyDB, SavedFile, EmptyConversationFile}

\* lines 27-30 and line 60: loadDB on whatever file the server finds
StartupInit ==
  /\ \E f \in StartupFiles,
        w \in (IF MaxWriteFailures > 0 THEN WriteOutcomes ELSE {"ok"}) :
       /\ db = loadDB(f, w).db
       /\ file = loadDB(f, w).file
       /\ ioFailed = IF f \in {NoFile, CorruptFile, UnreadableFile} /\ w # "ok"
                     THEN 1 ELSE 0
  /\ reqs = [r \in Req |-> NewReq]
  /\ now = 0
  /\ last = NoEvent
  /\ convIdLog = <<>>
  /\ msgIdLog = <<>>

(* ------------------------------ actions ------------------------------- *)
\* a server that takes a request only when no handler is suspended
ArrivesWhenIdle(r) ==
  /\ reqs[r].pc = "new"
  /\ \A q \in 1..(r - 1) : reqs[q].pc # "new"
  /\ \A q \in Req : reqs[q].pc # "awaiting"

\* requests are numbered in the order express dispatches them
Arrives(r) ==
  /\ reqs[r].pc = "new"
  /\ \A q \in 1..(r - 1) : reqs[q].pc # "new"

\* lines 70-76: message missing -> 400
PostInvalid(r) ==
  /\ Arrives(r)
  /\ \E message \in MessageInputs : message = ""
  /\ reqs' = [reqs EXCEPT ![r] = Done]
  /\ last' = Event("post", r, 400, 0)
  /\ UNCHANGED <<db, file, now, convIdLog, msgIdLog, ioFailed>>

\* a POST /message that opens a conversation whatever conversationId says
GetOrCreateAlwaysNew(d, conversationId, userId, t1) ==
  LET convId == generateId(d.conversations)
      conversation == [id |-> convId,
                       user_id |-> IF userId = "" THEN "anonymous" ELSE userId,
                       created_at |-> t1]
  IN [found |-> FALSE,
      convId |-> convId,
      conversations |-> Append(d.conversations, conversation)]

\* lines 78-90: get or create the conversation of a POST /message
GetOrCreate(d, conversationId, userId, t1) ==
  LET found == FindIndex(d.conversations, conversationId) # 0
      convId == IF found THEN conversationId
                ELSE generateId(d.conversations)
      conversation == [id |-> convId,
                       user_id |-> IF userId = "" THEN "anonymous" ELSE userId,
                       created_at |-> t1]
  IN [found |-> found,
      convId |-> convId,
      conversations |-> IF found THEN d.conversations
                        ELSE Append(d.conversations, conversation)]

\* a POST /message that is suspended after creating its conversation and
\* before appending its user message
PostStartNoMessage(r) ==
  /\ Arrives(r)
  /\ \E conversationId \in IdInputs, userId \in UserInputs,
        t1 \in now..Min(now + 1, MaxClock) :
       LET got == GetOrCreate(db, conversationId, userId, t1)
           db1 == [db EXCEPT !.conversations = got.conversations]
       IN /\ db' = db1
          /\ reqs' = [reqs EXCEPT ![r].pc = "awaiting",
                                  ![r].convId = got.convId,
                                  ![r].history = ProviderHistory(db1, got.convId)]
          /\ now' = t1
          /\ convIdLog' = IF got.found THEN convIdLog
                          ELSE Append(convIdLog, got.convId)
  /\ last' = NoEvent
  /\ UNCHANGED <<file, msgIdLog, ioFailed>>

\* lines 70-112: a valid POST /message up to the await.  The field `req` of a
\* message stands for the identity of the JS object: which request's handler
\* allocated it (two messages equal in every stored field are still two objects)
PostStart(r) ==
  /\ Arrives(r)
  /\ \E message \in MessageInputs \ {""}, conversationId \in IdInputs,
        userId \in UserInputs,
        t1 \in now..Min(now + 1, MaxClock) :
     \E t2 \in t1..Min(t1 + 1, MaxClock) :
       LET got == GetOrCreate(db, conversationId, userId, t1)
           convId == got.convId
           userMsg == [id |-> generateId(db.messages),
                       conversation_id |-> convId,
                       role |-> "user",
                       content |-> message,
                       timestamp |-> t2,
                       req |-> r]
           db1 == [conversations |-> got.conversations,
                   messages |-> Append(db.messages, userMsg)]
       IN /\ db' = db1
          /\ reqs' = [reqs EXCEPT ![r].pc = "awaiting",
                                  ![r].convId = convId,
                                  ![r].history = ProviderHistory(db1, convId)]
          /\ now' = t2
          /\ last' = NoEvent
          /\ convIdLog' = IF got.found THEN convIdLog
                          ELSE Append(convIdLog, convId)
          /\ msgIdLog' = Append(msgIdLog, userMsg.id)
  /\ UNCHANGED <<file, ioFailed>>

\* lines 117-137: the provider's promise resolved with a completion
PostResume(r) ==
  /\ reqs[r].pc = "awaiting"
  /\ \E aiReply \in Replies, t \in now..Min(now + 1, MaxClock), w \in WritesNow :
       LET aiMsg == [id |-> generateId(db.messages),
                     conversation_id |-> reqs[r].convId,
                     role |-> "assistant",
                     content |-> aiReply,
                     timestamp |-> t,
                     req |-> r]
           db1 == [db EXCEPT !.messages = Append(db.messages, aiMsg)]
       IN /\ db' = db1
          /\ file' = saveDB(db1, file, w)
          /\ ioFailed' = IF w = "ok" THEN ioFailed ELSE ioFailed + 1
          /\ now' = t
          /\ msgIdLog' = Append(msgIdLog, aiMsg.id)
  /\ reqs' = [reqs EXCEPT ![r] = Done]
  /\ last' = Event("post", r, 200, reqs[r].convId)
  /\ UNCHANGED convIdLog

\* lines 139-145: the provider's promise rejected, or line 117 threw on a
\* completion without choices
PostCatch(r) ==
  /\ reqs[r].pc = "awaiting"
  /\ reqs' = [reqs EXCEPT ![r] = Done]
  /\ last' = Event("post", r, 500, reqs[r].convId)
  /\ UNCHANGED <<db, file, now, convIdLog, msgIdLog, ioFailed>>

\* DELETE /conversation/:id that saves before it looks the conversation up
DeleteConversationAlwaysSaves ==
  \E id \in IdInputs, w \in WritesNow :
    LET convIndex == FindIndex(db.conversations, id)
        db1 == [conversations |->
                  SelectSeq(db.conversations, LAMBDA c : c.id # id),
                messages |->
                  SelectSeq(db.messages, LAMBDA m : m.conversation_id # id)]
    IN /\ db' = db1
       /\ file' = saveDB(db1, file, w)
       /\ ioFailed' = IF w = "ok" THEN ioFailed ELSE ioFailed + 1
       /\ last' = IF convIndex = 0 THEN Event("delete", 0, 404, 0)
                  ELSE Event("delete", 0, 200, id)
       /\ UNCHANGED <<reqs, now, convIdLog, msgIdLog>>

\* lines 213-241
DeleteConversation ==
  \E id \in IdInputs :
    LET convIndex == FindIndex(db.conversations, id) IN
    IF convIndex = 0
    THEN /\ last' = Event("delete", 0, 404, 0)
         /\ UNCHANGED <<db, file, reqs, now, convIdLog, msgIdLog, ioFailed>>
    ELSE \E w \in WritesNow :
         LET db1 == [conversations |->
                       SubSeq(db.conversations, 1, convIndex - 1) \o
                       SubSeq(db.conversations, convIndex + 1,
                              Len(db.conversations)),
                     messages |->
                       SelectSeq(db.messages,
                                 LAMBDA m : m.conversation_id # id)]
         IN /\ db' = db1
            /\ file' = saveDB(db1, file, w)
            /\ ioFailed' = IF w = "ok" THEN ioFailed ELSE ioFailed + 1
            /\ last' = Event("delete", 0, 200, id)
            /\ UNCHANGED <<reqs, now, convIdLog, msgIdLog>>

\* lines 149-175: GET /history/:conversationId; filter() copies, so the sort
\* is of the copy
GetHistory ==
  \E id \in IdInputs :
    /\ last' = Event("history", 0, HistoryStatus(db, id), 0)
    /\ UNCHANGED <<db, file, reqs, now, convIdLog, msgIdLog, ioFailed>>

Next ==
  \/ \E r \in Req : PostInvalid(r)
  \/ \E r \in Req : PostStart(r)
  \/ \E r \in Req : PostResume(r)
  \/ \E r \in Req : PostCatch(r)
  \/ DeleteConversation

Spec == Init /\ [][Next]_vars

\* no POST /message is suspended at its provider call
NoneAwaiting == \A q \in Req : reqs[q].pc # "awaiting"

\* the clients send a request only after the previous one was answered
NextSerial ==
  \/ \E r \in Req : NoneAwaiting /\ PostInvalid(r)
  \/ \E r \in Req : NoneAwaiting /\ PostStart(r)
  \/ \E r \in Req : PostResume(r)
  \/ \E r \in Req : PostCatch(r)
  \/ NoneAwaiting /\ DeleteConversation

SerialSpec == Init /\ [][NextSerial]_vars

\* the server with its clients also reading histories
NextRead == NextSerial \/ GetHistory

ReadSpec == Init /\ [][NextRead]_vars

\* the server from its start on any file, its clients sending one request
\* at a time
StartupSpec == StartupInit /\ [][NextSerial]_vars

\* express runs the handler of every request it receives; nothing obliges
\* the provider to answer.
FairSpec == Spec /\ \A r \in Req : WF_vars(PostInvalid(r) \/ PostStart(r))

(* ------------------------------ claims -------------------------------- *)
ConvIds(d) == {c.id : c \in Range(d.conversations)}

Answered(op) == last.op = op /\ last.status # 0

\* C1: every message in the store has the conversation_id of a conversation
\* that is in the store, whatever the interleaving of DELETE with POST
C1_NoOrphanMessage ==
  \A m \in Range(db.messages) : m.conversation_id \in ConvIds(db)

\* C2: every conversation POST /message creates gets an id strictly greater
\* than the id of every conversation created before it
C2_ConversationIdsIncrease ==
  \A i, j \in 1..Len(convIdLog) : i < j => convIdLog[i] < convIdLog[j]

\* C3: an id once given to a conversation, or to a message, is never given
\* to a later conversation, or message
C3_IdsNeverReused ==
  /\ \A i, j \in 1..Len(convIdLog) : i # j => convIdLog[i] # convIdLog[j]
  /\ \A i, j \in 1..Len(msgIdLog) : i # j => msgIdLog[i] # msgIdLog[j]

\* C4: no two POST /message requests for one conversation are both between
\* their user append and their assistant append, and in each conversation
\* every assistant message directly follows the user message of its request
C4_PerConversationExclusion ==
  /\ \A r1, r2 \in Req :
       (r1 # r2 /\ reqs[r1].pc = "awaiting" /\ reqs[r2].pc = "awaiting")
         => reqs[r1].convId # reqs[r2].convId
  /\ \A cid \in ConvIds(db) :
       LET h == HistoryMessages(db, cid) IN
       \A i \in 1..Len(h) :
         h[i].role = "assistant"
           => i > 1 /\ h[i-1].role = "user" /\ h[i-1].req = h[i].req

\* C5: no two messages in the store share an id and no two conversations in
\* the store share an id, under every interleaving of POST /message requests
C5_NoDuplicateIds ==
  /\ \A i, j \in 1..Len(db.messages) :
       i # j => db.messages[i].id # db.messages[j].id
  /\ \A i, j \in 1..Len(db.conversations) :
       i # j => db.conversations[i].id # db.conversations[j].id

\* two requests are in flight at once over a store that has lost a conversation
C5_Witness ==
  /\ \E r1, r2 \in Req :
       r1 # r2 /\ reqs[r1].pc = "awaiting" /\ reqs[r2].pc = "awaiting"
  /\ Len(db.messages) >= 1
  /\ Len(convIdLog) > Len(db.conversations)

\* C6: when the provider fails the request is answered 500, the store holds
\* exactly one user message of that request and no assistant message of it,
\* and GET /history of the conversation shows that user message
C6_FailedCompletionKeepsUserTurn ==
  (Answered("post") /\ last.status = 500) =>
    /\ Cardinality({i \in 1..Len(db.messages) :
                      db.messages[i].req = last.req
                      /\ db.messages[i].role = "user"}) = 1
    /\ \A m \in Range(db.messages) :
         m.req = last.req => m.role # "assistant"
    /\ HistoryStatus(db, last.id) = 200
    /\ \E m \in Range(HistoryMessages(db, last.id)) :
         m.req = last.req /\ m.role = "user"

\* C7: once a POST /message or DELETE /conversation/:id has been answered,
\* with success or failure, the snapshot file equals the in-memory store,
\* provided no file write has failed
C7_FileFollowsStore ==
  ((Answered("post") \/ Answered("delete")) /\ ioFailed = 0) => file = db

\* C8: a request whose snapshot write failed is not answered with success:
\* after a success answer the request's mutation is in the file
C8_NoSuccessWithoutFile ==
  /\ (Answered("post") /\ last.status = 200) =>
       \A m \in Range(db.messages) :
         m.req = last.req => m \in Range(file.messages)
  /\ (Answered("delete") /\ last.status = 200) =>
       /\ last.id \notin ConvIds(file)
       /\ \A m \in Range(file.messages) : m.conversation_id # last.id

\* C9: every POST /message that reached the provider call is eventually
\* answered, also when the provider never returns
C9_EveryPostAnswered ==
  \A r \in Req : (reqs[r].pc = "awaiting") ~> (reqs[r].pc = "done")

\* C10: right after DELETE /conversation/:id answers success the conversation
\* is in no GET /conversations listing, GET /history/:id answers 404, and
\* neither the store nor the snapshot file holds it or a message of it
C10_DeletedIsGone ==
  (Answered("delete") /\ last.status = 200) =>
    /\ \A u \in UserInputs : last.id \notin ListedIds(db, u)
    /\ HistoryStatus(db, last.id) = 404
    /\ last.id \notin ConvIds(db)
    /\ \A m \in Range(db.messages) : m.conversation_id # last.id
    /\ last.id \notin ConvIds(file)
    /\ \A m \in Range(file.messages) : m.conversation_id # last.id

\* the POST /message requests that have a message stored under cid
RequestsIn(d, cid) == {m.req : m \in Range(MessagesOf(d, cid))}

\* C11: after n POST /message requests to one conversation that did not
\* overlap and whose completions all succeeded, GET /history returns 2n
\* messages in chronological order, user then assistant for each request,
\* in request order
C11_SerialHistoryAlternates ==
  \A cid \in ConvIds(db) :
    LET h == HistoryMessages(db, cid)
        R == RequestsIn(db, cid)
        n == Cardinality(R)
    IN ( /\ \A r \in R : reqs[r].pc = "done"
         /\ \A r \in R : \E m \in Range(h) : m.req = r /\ m.role = "assistant" )
       => /\ HistoryStatus(db, cid) = 200
          /\ Len(h) = 2 * n
          /\ \A i, j \in 1..Len(h) : i < j => h[i].timestamp <= h[j].timestamp
          /\ \A k \in 1..n :
               /\ h[2*k - 1].role = "user"
               /\ h[2*k - 1].content \in MessageInputs \ {""}
               /\ h[2*k].role = "assistant"
               /\ h[2*k].content \in Replies
               /\ h[2*k].req = h[2*k - 1].req
               /\ k > 1 => h[2*k - 3].req < h[2*k - 1].req

\* two answered requests have left four messages, written at one clock value,
\* in one conversation
C11_Witness ==
  \E cid \in ConvIds(db) :
    /\ NoneAwaiting
    /\ Cardinality(RequestsIn(db, cid)) = 2
    /\ Len(HistoryMessages(db, cid)) = 4
    /\ \A m \in Range(MessagesOf(db, cid)) : m.timestamp = now

\* role and content of each message, as handed to the provider
RoleContent(h) ==
  [i \in 1..Len(h) |-> [role |-> h[i].role, content |-> h[i].content]]

\* the step takes request r from its arrival to its provider call
Starts(r) == reqs[r].pc = "new" /\ reqs'[r].pc = "awaiting"

\* C12: the history a POST /message hands to the provider is the
\* conversation's messages in timestamp order, ties in insertion order, and
\* ends with the user message the request has just appended; the messages of
\* a conversation are never returned in another order than they were inserted
C12_AppendedIsLast ==
  /\ [][\A r \in Req : Starts(r) =>
          LET stored == MessagesOf(db', reqs'[r].convId)
              appended == db'.messages[Len(db'.messages)]
              h == reqs'[r].history
          IN /\ h = RoleContent(stored)
             /\ \A i, j \in 1..Len(stored) :
                  i < j => stored[i].timestamp <= stored[j].timestamp
             /\ appended.req = r /\ appended.role = "user"
             /\ appended.conversation_id = reqs'[r].convId
             /\ h[Len(h)] = [role |-> "user", content |-> appended.content]]_vars
  /\ [](\A cid \in IdInputs : HistoryMessages(db, cid) = MessagesOf(db, cid))

\* a request is at its provider call with a history of three messages, two of
\* which carry the same timestamp
C12_Witness ==
  \E r \in Req :
    /\ reqs[r].pc = "awaiting"
    /\ Len(reqs[r].history) >= 3
    /\ \E i, j \in 1..Len(MessagesOf(db, reqs[r].convId)) :
         /\ i # j
         /\ MessagesOf(db, reqs[r].convId)[i].timestamp =
              MessagesOf(db, reqs[r].convId)[j].timestamp

\* the fields of each message that GET /history returns
Stored(h) ==
  [i \in 1..Len(h) |-> [id |-> h[i].id,
                        conversation_id |-> h[i].conversation_id,
                        role |-> h[i].role,
                        content |-> h[i].content,
                        timestamp |-> h[i].timestamp]]

\* C13: once every request has been answered, a restart (loadDB reading the
\* snapshot file) yields for every conversation the messages, in the order,
\* that GET /history returned before the restart
C13_RestartRoundTrip ==
  NoneAwaiting =>
    \A cid \in IdInputs :
      Stored(HistoryMessages(loadDB(file, "ok").db, cid))
        = Stored(HistoryMessages(db, cid))

\* a store every handler can work on: both arrays are there
WellFormed(d) == DOMAIN d = {"conversations", "messages"}

BadFiles == {CorruptFile, UnreadableFile}

\* C14 as stated: started on a corrupt or unreadable file, loadDB leaves the
\* empty store in memory and has written the empty store back to the file,
\* and every later request works on a well-formed store
C14_StartupRewritesFile ==
  /\ \A f \in BadFiles, w \in WriteOutcomes :
       loadDB(f, w).db = EmptyDB /\ loadDB(f, w).file = EmptyDB
  /\ WellFormed(db)
  /\ file \notin BadFiles

\* C14 as amended: the empty store is in memory in any case, and in the file
\* unless the write of it failed; every later request works on a well-formed
\* store
C14_StartupRecovers ==
  /\ \A f \in BadFiles, w \in WriteOutcomes :
       /\ loadDB(f, w).db = EmptyDB
       /\ w = "ok" => loadDB(f, w).file = EmptyDB
  /\ WellFormed(db)
  /\ ioFailed = 0 => (file \notin BadFiles /\ WellFormed(file))

\* the server started on a bad file it could not rewrite, and a request has
\* since appended to the store
C14_Witness ==
  /\ file \in BadFiles
  /\ Len(db.messages) >= 1

\* C15: a step that answers 400 (POST /message without a message) or 404
\* (DELETE of an unknown id, GET /history of an id without messages) leaves
\* the conversations, the messages and the snapshot file as they were
C15_ErrorsChangeNothing ==
  [][last'.status \in {400, 404} => (db' = db /\ file' = file)]_vars

\* GET /history has just answered 404 while a request is at its provider call
\* and the store holds what the file does not
C15_Witness ==
  /\ last.op = "history" /\ last.status = 404
  /\ ~NoneAwaiting
  /\ Len(db.messages) >= 1
  /\ file # db

\* the owner line 85 gives a conversation created for userId
OwnerOf(userId) == IF userId = "" THEN "anonymous" ELSE userId

\* C16: POST /message with a conversationId that is in the store appends to
\* that conversation and creates or changes no conversation; with any other
\* conversationId it creates exactly one conversation, owned by userId or
\* 'anonymous', and appends to it; a success response carries the id the
\* request's messages are stored under
C16_ConversationResolution ==
  /\ [](\A conversationId \in IdInputs, userId \in UserInputs, t \in 0..MaxClock :
         LET got == GetOrCreate(db, conversationId, userId, t)
             n == Len(db.conversations)
         IN IF conversationId \in ConvIds(db)
            THEN got.convId = conversationId /\ got.conversations = db.conversations
            ELSE /\ Len(got.conversations) = n + 1
                 /\ SubSeq(got.conversations, 1, n) = db.conversations
                 /\ got.conversations[n + 1] =
                      [id |-> got.convId, user_id |-> OwnerOf(userId),
                       created_at |-> t]
                 /\ got.convId \notin ConvIds(db))
  /\ [][\A r \in Req : Starts(r) =>
          LET appended == db'.messages[Len(db'.messages)] IN
          /\ \E conversationId \in IdInputs, userId \in UserInputs,
                t \in 0..MaxClock :
               LET got == GetOrCreate(db, conversationId, userId, t) IN
               /\ db'.conversations = got.conversations
               /\ reqs'[r].convId = got.convId
          /\ Len(db'.messages) = Len(db.messages) + 1
          /\ appended.req = r /\ appended.role = "user"
          /\ appended.conversation_id = reqs'[r].convId
          /\ \A c \in Range(db.conversations) : c \in Range(db'.conversations)]_vars
  /\ []((Answered("post") /\ last.status = 200) =>
         /\ \E m \in Range(db.messages) : m.req = last.req
         /\ \A m \in Range(db.messages) :
              m.req = last.req => m.conversation_id = last.id)

\* a second request, sent with the id of the only conversation ever created,
\* has been answered with success
C16_Witness ==
  /\ Answered("post") /\ last.status = 200
  /\ Len(convIdLog) = 1
  /\ Len(db.conversations) = 1
  /\ Cardinality(RequestsIn(db, last.id)) = 2

\* positions in d.messages of the messages stored under cid
MessagePositions(d, cid) ==
  {k \in 1..Len(d.messages) : d.messages[k].conversation_id = cid}

\* C17: GET /conversations?userId=u lists exactly the conversations u owns
\* ('anonymous' without userId), each with the number of its stored messages
\* and the timestamp of its latest message (created_at when it has none),
\* newest last_message first, equal last_message values in order of id
C17_ConversationListing ==
  \A u \in UserInputs :
    LET list == UserConversations(db, u)
        owned == {c \in Range(db.conversations) : c.user_id = OwnerOf(u)}
    IN /\ Len(list) = Cardinality(owned)
       /\ {list[i].id : i \in 1..Len(list)} = {c.id : c \in owned}
       /\ \A i \in 1..Len(list) :
            LET at == MessagePositions(db, list[i].id) IN
            /\ list[i].message_count = Cardinality(at)
            /\ at # {} =>
                 list[i].last_message = SetMax({db.messages[k].timestamp : k \in at})
            /\ at = {} =>
                 \E c \in owned : c.id = list[i].id
                                   /\ list[i].last_message = c.created_at
       /\ \A i, j \in 1..Len(list) :
            i < j => \/ list[i].last_message > list[j].last_message
                     \/ /\ list[i].last_message = list[j].last_message
                        /\ list[i].id < list[j].id

\* one owner's listing holds a conversation without messages and another
\* conversation with the same last_message
C17_Witness ==
  \E u \in UserInputs :
    LET list == UserConversations(db, u) IN
    \E i, j \in 1..Len(list) :
      /\ i # j
      /\ list[i].last_message = list[j].last_message
      /\ list[i].message_count = 0
      /\ list[j].message_count >= 1

\* the store without the messages request r has appended
WithoutRequest(d, r) ==
  [d EXCEPT !.messages = SelectSeq(d.messages, LAMBDA m : m.req # r)]

\* request q is the next one express dispatches
IsNext(q) == reqs[q].pc = "new" /\ \A p \in 1..(q - 1) : reqs[p].pc # "new"

\* C18: while a POST /message for conversation A is at its provider call,
\* the next POST /message can run up to its own provider call (for any other
\* conversation B of the store), a POST for another conversation that is at
\* its provider call can be answered, DELETE of B and GET /history can run,
\* and what GET /history and the provider are given for B is what they would
\* be given without the pending request's messages
C18_PendingDoesNotBlock ==
  \A r \in Req : reqs[r].pc = "awaiting" =>
    LET A == reqs[r].convId IN
    /\ \A q \in Req \ {r} :
         /\ IsNext(q) =>
              /\ ENABLED PostStart(q)
              /\ ENABLED PostInvalid(q)
              /\ \A B \in ConvIds(db) \ {A} :
                   ENABLED (PostStart(q) /\ reqs'[q].convId = B)
         /\ (reqs[q].pc = "awaiting" /\ reqs[q].convId # A) =>
              /\ ENABLED (PostResume(q) /\ last' = Event("post", q, 200, reqs[q].convId))
              /\ ENABLED PostCatch(q)
    /\ ENABLED GetHistory
    /\ \A B \in IdInputs \ {A} :
         /\ B \in ConvIds(db) =>
              ENABLED (DeleteConversation /\ last' = Event("delete", 0, 200, B))
         /\ HistoryMessages(db, B) = HistoryMessages(WithoutRequest(db, r), B)
         /\ HistoryStatus(db, B) = HistoryStatus(WithoutRequest(db, r), B)
         /\ ProviderHistory(db, B) = ProviderHistory(WithoutRequest(db, r), B)

\* two requests are at their provider calls, for two conversations of the
\* store
C18_Witness ==
  \E r, q \in Req :
    /\ reqs[r].pc = "awaiting" /\ reqs[q].pc = "awaiting"
    /\ reqs[r].convId # reqs[q].convId
    /\ {reqs[r].convId, reqs[q].convId} \subseteq ConvIds(db)

\* C19: the history of a conversation of the store, as GET /history returns
\* it and as the provider is handed it, holds only messages of requests that
\* resolved to this conversation: an assistant message in it belongs to a
\* request whose user message is in it too (a user message leaves the store
\* only when the conversation it was appended to is deleted)
C19_ConversationIsolation ==
  \A cid \in ConvIds(db) :
    LET h == HistoryMessages(db, cid) IN
    \A i \in 1..Len(h) :
      h[i].role = "assistant" =>
        \E j \in 1..Len(h) : h[j].role = "user" /\ h[j].req = h[i].req

\* C20: from the empty store, every conversation in the store has at least
\* one message, so GET /history/:id answers 404 only for an id that names no
\* conversation of the store
C20_NoEmptyConversation ==
  /\ \A cid \in ConvIds(db) : Len(MessagesOf(db, cid)) >= 1
  /\ \A id \in IdInputs : HistoryStatus(db, id) = 404 => id \notin ConvIds(db)

\* of two conversations created, one is left, and GET /history of the other
\* one's id answers 404
C20_Witness ==
  /\ Len(convIdLog) = 2
  /\ Len(db.conversations) = 1
  /\ \E id \in Range(convIdLog) \ ConvIds(db) : HistoryStatus(db, id) = 404

=============================================================================
